---------------------------- MODULE Spec2Model ----------------------------
(***************************************************************************)
(* A model of the toy machine of src/toymachine/machine.py: a CPU with    *)
(* five registers, a memory of eight cells, eight instructions, and the   *)
(* two-word continuation protocol, driven as src/main.py drives it (one    *)
(* fetch and one execute per step, load_program), plus the register and    *)
(* memory load/store calls of the CPU and Memory classes.                  *)
(*                                                                         *)
(* Representation.  A Python string "0b<bits>" is the sequence of its     *)
(* bits (most significant first), so len(value) - 2 is Len(bits).  A       *)
(* Python int is an unbounded natural number: it is kept as its binary     *)
(* digits without leading zeros (zero is the empty sequence), so that      *)
(* 32-bit values and the 33-bit sums of the add instructions are exact.    *)
(* int(s, 2) is Int2 (it drops the leading zeros) and bin(n) is Bin (it    *)
(* writes zero as "0").  Values handed to a store are tagged "str" or      *)
(* "int", the two cases of isinstance(value, int).                         *)
(*                                                                         *)
(* Input domain: every string is "0b" followed by at least one binary      *)
(* digit, the form of Binary in the source (machine.py line 8).            *)
(***************************************************************************)
EXTENDS Integers, Sequences, FiniteSets, TLC

\* ------------------------------------------------------------ constants
WORD_SIZE == 32
REGISTER_BITS == 3
MEM_ADDR_BITS == 10
OPCODE_BITS == 6
\* Machine.__init__: Memory(blocks=8)
MEMORY_BLOCKS == 8

\* ------------------------------------------------------------ bounds
\* Spec, the machine as main drives it: the steps (fetch/execute cycles) and
\* the load_program calls of one run
MaxSteps == 9
MaxLoads == 2
\* SpecCalls, the machine with direct calls of the CPU and Memory classes:
\* the store calls, steps and load_program calls of one run
MaxCalls == 1
MaxCallSteps == 2
MaxCallLoads == 1

\* ------------------------------------------------- strings and integers
\* Python s[k:] (k may be negative: counted from the end)
SliceFrom(s, k) ==
    LET start == IF k < 0 THEN (IF Len(s) + k < 0 THEN 0 ELSE Len(s) + k)
                 ELSE (IF k > Len(s) THEN Len(s) ELSE k)
    IN  SubSeq(s, start + 1, Len(s))

\* Python s[:k], k >= 0
SliceTo(s, k) == SubSeq(s, 1, IF k > Len(s) THEN Len(s) ELSE k)

\* Python s.find("1"): the 0-based index of the first 1, or -1
Find1(s) ==
    IF \E i \in 1..Len(s) : s[i] = 1
    THEN (CHOOSE i \in 1..Len(s) : s[i] = 1 /\ \A j \in 1..(i - 1) : s[j] = 0) - 1
    ELSE -1

\* int(s, 2) as a natural number: the digits without their leading zeros
Int2(s) == IF Find1(s) = -1 THEN << >> ELSE SliceFrom(s, Find1(s))

\* bin(n) without its "0b"
Bin(n) == IF n = << >> THEN <<0>> ELSE n

\* a natural number known to be small, as a TLA+ integer
RECURSIVE ToInt(_)
ToInt(n) == IF n = << >> THEN 0 ELSE 2 * ToInt(SubSeq(n, 1, Len(n) - 1)) + n[Len(n)]

\* whether the natural number n is below 2^30 (so that ToInt(n) is exact)
Small(n) == Len(n) <= 30

\* the natural number of a small TLA+ integer
RECURSIVE FromInt(_)
FromInt(i) == IF i = 0 THEN << >> ELSE Append(FromInt(i \div 2), i % 2)

\* a + b on natural numbers (Python's unbounded +): ripple carry from the right
RECURSIVE AddC(_, _, _)
AddC(a, b, c) ==
    IF a = << >> /\ b = << >>
    THEN (IF c = 1 THEN <<1>> ELSE << >>)
    ELSE LET x == IF a = << >> THEN 0 ELSE a[Len(a)]
             y == IF b = << >> THEN 0 ELSE b[Len(b)]
             ra == IF a = << >> THEN << >> ELSE SubSeq(a, 1, Len(a) - 1)
             rb == IF b = << >> THEN << >> ELSE SubSeq(b, 1, Len(b) - 1)
             t == x + y + c
         IN  Append(AddC(ra, rb, t \div 2), t % 2)

Add(a, b) == Int2(AddC(a, b, 0))

StrV(bits) == [kind |-> "str", v |-> bits]
IntV(n) == [kind |-> "int", v |-> n]

\* isinstance(value, int): value = bin(value)
AsStored(value) == IF value.kind = "int" THEN Bin(value.v) ELSE value.v

\* d[k] = v on a Python dict: the key is created when it is missing
DictSet(d, k, v) == (k :> v) @@ d

\* ------------------------------------------------------------ the state
VARIABLES registers, memory, op, err, ret, fetched, disp, steps, loads, calls

vars == <<registers, memory, op, err, ret, fetched, disp, steps, loads, calls>>

\* the order of CPU.registers' keys
RegOrder == <<"AC", "DR", "CR", "PC", "IR">>
RegNames == {RegOrder[i] : i \in 1..Len(RegOrder)}

\* CPU.create_registers
create_registers == [r \in RegNames |-> <<0>>]

\* Memory.create_memory
create_memory(num) == [i \in 0..(num - 1) |-> <<0>>]

OK == "ok"
NoDispatch == [func |-> -1, name |-> "none", args |-> << >>, pc |-> << >>, ir |-> << >>]
NoRet == [kind |-> "none", v |-> << >>]
NoOp == [name |-> "init", reg |-> "", addr |-> 0, val |-> NoRet, prog |-> 0]

\* the machine while one call runs: registers, memory, the exception raised
\* so far (OK when none), the addresses fetched and the dispatch made
Running(reg, mem) ==
    [reg |-> reg, mem |-> mem, err |-> OK, fetched |-> << >>, disp |-> NoDispatch]

Raise(s, e) == [s EXCEPT !.err = e]


\* a Python int used as a dictionary key or list index.  A natural number of
\* 2^30 or more is no key of memory_blocks and no index of the register
\* list; all of them are represented by 2^30.
AsIndex(n) == IF Small(n) THEN ToInt(n) ELSE 1073741824

\* ------------------------------------------------------------ Memory
\* Memory.load: [err, val]; val is the stored string, or its integer value
\* when return_type is "d"
MemoryLoad(mem, address, return_type) ==
    IF address \notin DOMAIN mem
    THEN [err |-> "AddressNotFound", val |-> NoRet]
    ELSE [err |-> OK,
          val |-> IF return_type = "d" THEN IntV(Int2(mem[address]))
                  ELSE StrV(mem[address])]

\* Memory.store as it would be if it kept the low 32 bits of a longer value
MemoryStore_Truncates(s, address, value) ==
    IF address \notin DOMAIN s.mem
    THEN Raise(s, "AddressNotFound")
    ELSE [s EXCEPT !.mem = DictSet(s.mem, address, SliceFrom(AsStored(value), 0 - WORD_SIZE))]

\* Memory.store
MemoryStore(s, address, value) ==
    IF address \notin DOMAIN s.mem
    THEN Raise(s, "AddressNotFound")
    ELSE IF Len(AsStored(value)) > WORD_SIZE
         THEN Raise(s, "ValueTooLong")
         ELSE [s EXCEPT !.mem = DictSet(s.mem, address, AsStored(value))]

\* ------------------------------------------------------------ CPU
\* CPU.load
CPULoad(reg, regid, return_type) ==
    IF regid \notin DOMAIN reg
    THEN [err |-> "RegisterNotFound", val |-> NoRet]
    ELSE [err |-> OK,
          val |-> IF return_type = "d" THEN IntV(Int2(reg[regid]))
                  ELSE StrV(reg[regid])]

\* CPU.load_from_memory
load_from_memory(mem, address, return_type) == MemoryLoad(mem, address, return_type)

\* CPU.store_in_memory and Machine.store_in_memory
store_in_memory(s, address, value) == MemoryStore(s, address, value)

\* CPU.store as it would be without the length check
CPUStore_NoLengthCheck(s, regid, value) ==
    IF regid \notin DOMAIN s.reg
    THEN Raise(s, "RegisterNotFound")
    ELSE [s EXCEPT !.reg = DictSet(s.reg, regid, AsStored(value))]

\* CPU.store as it would be without the check of the register name
CPUStore_NoKeyCheck(s, regid, value) ==
    IF Len(AsStored(value)) > WORD_SIZE
    THEN Raise(s, "ValueTooLong")
    ELSE [s EXCEPT !.reg = DictSet(s.reg, regid, AsStored(value))]

\* CPU.store as it would be if it stripped the leading zeros of a bit string
CPUStore_Normalises(s, regid, value) ==
    IF regid \notin DOMAIN s.reg
    THEN Raise(s, "RegisterNotFound")
    ELSE IF Len(AsStored(value)) > WORD_SIZE
         THEN Raise(s, "ValueTooLong")
         ELSE [s EXCEPT !.reg = DictSet(s.reg, regid, Bin(Int2(AsStored(value))))]

\* CPU.store
CPUStore(s, regid, value) ==
    IF regid \notin DOMAIN s.reg
    THEN Raise(s, "RegisterNotFound")
    ELSE IF Len(AsStored(value)) > WORD_SIZE
         THEN Raise(s, "ValueTooLong")
         ELSE [s EXCEPT !.reg = DictSet(s.reg, regid, AsStored(value))]

\* CPU.load_next_instruction as it would be if PC were advanced by two
load_next_instruction_SkipsWord(s) ==
    LET pc == CPULoad(s.reg, "PC", "d")
    IN  IF pc.err # OK THEN Raise(s, pc.err)
        ELSE
        LET next_instruction_location == pc.val.v
            address == AsIndex(next_instruction_location)
            next_instruction == load_from_memory(s.mem, address, "b")
        IN  IF next_instruction.err # OK THEN Raise(s, next_instruction.err)
            ELSE
            LET s1 == CPUStore([s EXCEPT !.fetched = Append(@, address)],
                               "IR", next_instruction.val)
            IN  IF s1.err # OK THEN s1
                ELSE CPUStore(s1, "PC", IntV(Add(next_instruction_location, <<1, 0>>)))

\* CPU.load_next_instruction as it would be if the address wrapped around the
\* memory size
load_next_instruction_Wraps(s) ==
    LET pc == CPULoad(s.reg, "PC", "d")
    IN  IF pc.err # OK THEN Raise(s, pc.err)
        ELSE
        LET next_instruction_location == pc.val.v
            address == AsIndex(next_instruction_location) % MEMORY_BLOCKS
            next_instruction == load_from_memory(s.mem, address, "b")
        IN  IF next_instruction.err # OK THEN Raise(s, next_instruction.err)
            ELSE
            LET s1 == CPUStore([s EXCEPT !.fetched = Append(@, address)],
                               "IR", next_instruction.val)
            IN  IF s1.err # OK THEN s1
                ELSE CPUStore(s1, "PC", IntV(Add(next_instruction_location, <<1>>)))

\* CPU.load_next_instruction as it would be if it left PC where it is
load_next_instruction_Stays(s) ==
    LET pc == CPULoad(s.reg, "PC", "d")
    IN  IF pc.err # OK THEN Raise(s, pc.err)
        ELSE
        LET next_instruction_location == pc.val.v
            address == AsIndex(next_instruction_location)
            next_instruction == load_from_memory(s.mem, address, "b")
        IN  IF next_instruction.err # OK THEN Raise(s, next_instruction.err)
            ELSE CPUStore([s EXCEPT !.fetched = Append(@, address)],
                          "IR", next_instruction.val)

\* CPU.load_next_instruction
load_next_instruction(s) ==
    LET pc == CPULoad(s.reg, "PC", "d")
    IN  IF pc.err # OK THEN Raise(s, pc.err)
        ELSE
        LET next_instruction_location == pc.val.v
            address == AsIndex(next_instruction_location)
            next_instruction == load_from_memory(s.mem, address, "b")
        IN  IF next_instruction.err # OK THEN Raise(s, next_instruction.err)
            ELSE
            LET s1 == CPUStore([s EXCEPT !.fetched = Append(@, address)],
                               "IR", next_instruction.val)
            IN  IF s1.err # OK THEN s1
                ELSE CPUStore(s1, "PC", IntV(Add(next_instruction_location, <<1>>)))

\* CPU.analyze_instruction as it would be if only longer words were refused
analyze_instruction_AcceptsShort(s) ==
    LET ir == CPULoad(s.reg, "IR", "b")
    IN  IF ir.err # OK THEN [err |-> ir.err, func |-> -1, args |-> << >>]
        ELSE
        LET instr == ir.val.v
        IN  IF Len(instr) > WORD_SIZE
            THEN [err |-> "MalformedInstruction", func |-> -1, args |-> << >>]
            ELSE [err |-> OK,
                  func |-> ToInt(Int2(SliceTo(instr, OPCODE_BITS))),
                  args |-> SliceFrom(instr, OPCODE_BITS)]

\* CPU.analyze_instruction: [err, func, args]
analyze_instruction(s) ==
    LET ir == CPULoad(s.reg, "IR", "b")
    IN  IF ir.err # OK THEN [err |-> ir.err, func |-> -1, args |-> << >>]
        ELSE
        LET instr == ir.val.v
        IN  IF Len(instr) # WORD_SIZE
            THEN [err |-> "MalformedInstruction", func |-> -1, args |-> << >>]
            ELSE [err |-> OK,
                  func |-> ToInt(Int2(SliceTo(instr, OPCODE_BITS))),
                  args |-> SliceFrom(instr, OPCODE_BITS)]

\* _split_args: <<first, second>>, each without its "0b"
split_args(args, pos, second_bits) ==
    LET sb == IF second_bits = -1
              THEN (IF Len(args) = WORD_SIZE - OPCODE_BITS
                    THEN WORD_SIZE - OPCODE_BITS - pos
                    ELSE WORD_SIZE)
              ELSE second_bits
    IN  <<SliceTo(args, pos), SliceFrom(args, 0 - sb)>>

\* CPU._to_register as it would be if the index wrapped around the five names
to_register_Wraps(reg, addr) ==
    LET i == AsIndex(Int2(addr))
    IN  [err |-> OK, name |-> RegOrder[(i % Len(RegOrder)) + 1]]

\* CPU._to_register: [err, name]; the list index out of range (an IndexError)
\* is the specification's RegisterNotFound
to_register(reg, addr) ==
    LET i == AsIndex(Int2(addr))
    IN  IF i < Len(RegOrder) THEN [err |-> OK, name |-> RegOrder[i + 1]]
        ELSE [err |-> "RegisterNotFound", name |-> ""]

\* ------------------------------------------------- the instruction set
\* CPU.move_reg_const as it would be if the constant were the whole operand
\* field, register bits included
move_reg_const_WholeField(s, args) ==
    LET nargs == split_args(args, REGISTER_BITS, -1)
        reg == to_register(s.reg, nargs[1])
    IN  IF reg.err # OK THEN Raise(s, reg.err)
        ELSE CPUStore(s, reg.name, IntV(Int2(args)))

\* CPU.move_reg_const
move_reg_const(s, args) ==
    LET nargs == split_args(args, REGISTER_BITS, -1)
        reg == to_register(s.reg, nargs[1])
    IN  IF reg.err # OK THEN Raise(s, reg.err)
        ELSE CPUStore(s, reg.name, IntV(Int2(nargs[2])))

\* CPU.move_reg_mem
move_reg_mem(s, args) ==
    LET nargs == split_args(args, REGISTER_BITS, MEM_ADDR_BITS)
        reg == to_register(s.reg, nargs[1])
    IN  IF reg.err # OK THEN Raise(s, reg.err)
        ELSE
        LET value == load_from_memory(s.mem, AsIndex(Int2(nargs[2])), "b")
        IN  IF value.err # OK THEN Raise(s, value.err)
            ELSE CPUStore(s, reg.name, value.val)

\* CPU.move_mem_const
move_mem_const(s, args) ==
    LET nargs == split_args(args, MEM_ADDR_BITS, -1)
    IN  store_in_memory(s, AsIndex(Int2(nargs[1])), StrV(nargs[2]))

\* CPU.move_mem_mem
move_mem_mem(s, args) ==
    LET nargs == split_args(args, MEM_ADDR_BITS, MEM_ADDR_BITS)
        value == load_from_memory(s.mem, AsIndex(Int2(nargs[2])), "b")
    IN  IF value.err # OK THEN Raise(s, value.err)
        ELSE store_in_memory(s, AsIndex(Int2(nargs[1])), value.val)

\* CPU.move_mem_reg
move_mem_reg(s, args) ==
    LET nargs == split_args(args, MEM_ADDR_BITS, REGISTER_BITS)
        reg == to_register(s.reg, nargs[2])
    IN  IF reg.err # OK THEN Raise(s, reg.err)
        ELSE
        LET value == CPULoad(s.reg, reg.name, "b")
        IN  IF value.err # OK THEN Raise(s, value.err)
            ELSE store_in_memory(s, AsIndex(Int2(nargs[1])), value.val)

\* CPU.add_reg_const as it would be if it kept the low 32 bits of the sum
add_reg_const_Wraps(s, args) ==
    LET nargs == split_args(args, REGISTER_BITS, -1)
        reg == to_register(s.reg, nargs[1])
    IN  IF reg.err # OK THEN Raise(s, reg.err)
        ELSE
        LET old == CPULoad(s.reg, reg.name, "d")
        IN  IF old.err # OK THEN Raise(s, old.err)
            ELSE CPUStore(s, reg.name,
                          IntV(Int2(SliceFrom(Bin(Add(old.val.v, Int2(nargs[2]))),
                                              0 - WORD_SIZE))))

\* CPU.add_reg_const
add_reg_const(s, args) ==
    LET nargs == split_args(args, REGISTER_BITS, -1)
        reg == to_register(s.reg, nargs[1])
    IN  IF reg.err # OK THEN Raise(s, reg.err)
        ELSE
        LET old == CPULoad(s.reg, reg.name, "d")
        IN  IF old.err # OK THEN Raise(s, old.err)
            ELSE CPUStore(s, reg.name, IntV(Add(old.val.v, Int2(nargs[2]))))

\* CPU.add_reg_mem as it would be if the memory value replaced the register's
add_reg_mem_Moves(s, args) ==
    LET nargs == split_args(args, REGISTER_BITS, MEM_ADDR_BITS)
        reg == to_register(s.reg, nargs[1])
    IN  IF reg.err # OK THEN Raise(s, reg.err)
        ELSE
        LET m == load_from_memory(s.mem, AsIndex(Int2(nargs[2])), "d")
        IN  IF m.err # OK THEN Raise(s, m.err)
            ELSE CPUStore(s, reg.name, IntV(m.val.v))

\* CPU.add_reg_mem
add_reg_mem(s, args) ==
    LET nargs == split_args(args, REGISTER_BITS, MEM_ADDR_BITS)
        reg == to_register(s.reg, nargs[1])
    IN  IF reg.err # OK THEN Raise(s, reg.err)
        ELSE
        LET m == load_from_memory(s.mem, AsIndex(Int2(nargs[2])), "d")
        IN  IF m.err # OK THEN Raise(s, m.err)
            ELSE
            LET r == CPULoad(s.reg, reg.name, "d")
            IN  IF r.err # OK THEN Raise(s, r.err)
                ELSE CPUStore(s, reg.name, IntV(Add(m.val.v, r.val.v)))

\* CPU.add_mem_reg
add_mem_reg(s, args) ==
    LET nargs == split_args(args, MEM_ADDR_BITS, REGISTER_BITS)
        reg == to_register(s.reg, nargs[2])
    IN  IF reg.err # OK THEN Raise(s, reg.err)
        ELSE
        LET memaddr == AsIndex(Int2(nargs[1]))
            m == load_from_memory(s.mem, memaddr, "d")
        IN  IF m.err # OK THEN Raise(s, m.err)
            ELSE
            LET r == CPULoad(s.reg, reg.name, "d")
            IN  IF r.err # OK THEN Raise(s, r.err)
                ELSE store_in_memory(s, memaddr, IntV(Add(m.val.v, r.val.v)))

\* CPU.create_instruction_set: opcode -> operation
instruction_set ==
    [f \in 0..7 |->
        CASE f = 0 -> "move_reg_const"
          [] f = 1 -> "move_reg_mem"
          [] f = 2 -> "move_mem_const"
          [] f = 3 -> "move_mem_mem"
          [] f = 4 -> "move_mem_reg"
          [] f = 5 -> "add_reg_const"
          [] f = 6 -> "add_reg_mem"
          [] f = 7 -> "add_mem_reg"]

\* func(args): the call of the operation looked up
Call(name, s, args) ==
    CASE name = "move_reg_const" -> move_reg_const(s, args)
      [] name = "move_reg_mem" -> move_reg_mem(s, args)
      [] name = "move_mem_const" -> move_mem_const(s, args)
      [] name = "move_mem_mem" -> move_mem_mem(s, args)
      [] name = "move_mem_reg" -> move_mem_reg(s, args)
      [] name = "add_reg_const" -> add_reg_const(s, args)
      [] name = "add_reg_mem" -> add_reg_mem(s, args)
      [] name = "add_mem_reg" -> add_mem_reg(s, args)

\* the last two lines of execute_current_instruction: the lookup in
\* instruction_set (a KeyError for an opcode that is no key) and the call.
\* disp records the opcode looked up, the operation called, the operand field
\* handed to it, and PC and IR at that moment.
Dispatch(s, func, args) ==
    IF func \notin DOMAIN instruction_set
    THEN Raise([s EXCEPT !.disp = [NoDispatch EXCEPT !.func = func]], "UnknownOpcode")
    ELSE Call(instruction_set[func],
              [s EXCEPT !.disp = [func |-> func, name |-> instruction_set[func],
                                  args |-> args, pc |-> s.reg["PC"],
                                  ir |-> s.reg["IR"]]],
              args)

\* the reserved opcode of a multiline instruction: bin(func) == "0b111111"
IsMultiline(func) == Bin(FromInt(func)) = <<1, 1, 1, 1, 1, 1>>

\* the operand field of a multiline instruction: args += remaining_args[throwaway_bits:]
JoinArgs(args, remaining_args) ==
    LET throwaway_bits == Find1(remaining_args)
    IN  args \o SliceFrom(remaining_args, throwaway_bits)

\* CPU.execute_current_instruction as it would be if the opcode of the first
\* word were the one looked up
execute_current_instruction_FirstOpcode(s) ==
    LET first == analyze_instruction(s)
    IN  IF first.err # OK THEN Raise(s, first.err)
        ELSE IF IsMultiline(first.func)
        THEN LET s1 == load_next_instruction(s)
             IN  IF s1.err # OK THEN s1
                 ELSE
                 LET second == analyze_instruction(s1)
                 IN  IF second.err # OK THEN Raise(s1, second.err)
                     ELSE Dispatch(s1, first.func, JoinArgs(first.args, second.args))
        ELSE Dispatch(s, first.func, first.args)

\* CPU.execute_current_instruction
execute_current_instruction(s) ==
    LET first == analyze_instruction(s)
    IN  IF first.err # OK THEN Raise(s, first.err)
        ELSE IF IsMultiline(first.func)
        THEN LET s1 == load_next_instruction(s)
             IN  IF s1.err # OK THEN s1
                 ELSE
                 LET second == analyze_instruction(s1)
                 IN  IF second.err # OK THEN Raise(s1, second.err)
                     ELSE Dispatch(s1, second.func, JoinArgs(first.args, second.args))
        ELSE Dispatch(s, first.func, first.args)

\* one blank command of main: load_next_instruction, then
\* execute_current_instruction unless the fetch raised
RunStep(s) ==
    LET s1 == load_next_instruction(s)
    IN  IF s1.err # OK THEN s1 ELSE execute_current_instruction(s1)

\* the loop of Machine.load_program as it would be if the address wrapped
\* around the memory size
RECURSIVE StoreLines_Wraps(_, _, _)
StoreLines_Wraps(s, program, i) ==
    IF i >= Len(program) \/ s.err # OK THEN s
    ELSE StoreLines_Wraps(store_in_memory(s, i % MEMORY_BLOCKS, StrV(program[i + 1])),
                          program, i + 1)

\* Machine.load_program, from line i + 1 of the program on
RECURSIVE StoreLines(_, _, _)
StoreLines(s, program, i) ==
    IF i >= Len(program) \/ s.err # OK THEN s
    ELSE StoreLines(store_in_memory(s, i, StrV(program[i + 1])), program, i + 1)

\* Machine.load_program
\* Machine.load_program as it would be if it cleared the memory first
load_program_Clears(s, program) ==
    LET s1 == CPUStore([s EXCEPT !.mem = create_memory(MEMORY_BLOCKS)], "PC", IntV(<< >>))
    IN  IF s1.err # OK THEN s1 ELSE StoreLines(s1, program, 0)

load_program(s, program) ==
    LET s1 == CPUStore(s, "PC", IntV(<< >>))
    IN  IF s1.err # OK THEN s1 ELSE StoreLines(s1, program, 0)

\* ------------------------------------------------------------ inputs
\* the k binary digits of the small integer i
RECURSIVE Bits(_, _)
Bits(i, k) == IF k = 0 THEN << >> ELSE Append(Bits(i \div 2, k - 1), i % 2)

Zeros(k) == [i \in 1..k |-> 0]
Ones(k) == [i \in 1..k |-> 1]

\* an instruction word: the opcode field, then the operand field
Word(opcode, operands) == Bits(opcode, OPCODE_BITS) \o operands

\* single-word instructions, laid out as the operation's _split_args call reads them
MRC(r, c) == Word(0, Bits(r, REGISTER_BITS) \o Bits(c, WORD_SIZE - OPCODE_BITS - REGISTER_BITS))
MRM(r, a) == Word(1, Bits(r, REGISTER_BITS)
                     \o Zeros(WORD_SIZE - OPCODE_BITS - REGISTER_BITS - MEM_ADDR_BITS)
                     \o Bits(a, MEM_ADDR_BITS))
MMC(a, c) == Word(2, Bits(a, MEM_ADDR_BITS) \o Bits(c, WORD_SIZE - OPCODE_BITS - MEM_ADDR_BITS))
MMM(a, b) == Word(3, Bits(a, MEM_ADDR_BITS)
                     \o Zeros(WORD_SIZE - OPCODE_BITS - 2 * MEM_ADDR_BITS)
                     \o Bits(b, MEM_ADDR_BITS))
MMR(a, r) == Word(4, Bits(a, MEM_ADDR_BITS)
                     \o Zeros(WORD_SIZE - OPCODE_BITS - REGISTER_BITS - MEM_ADDR_BITS)
                     \o Bits(r, REGISTER_BITS))
ARC(r, c) == Word(5, Bits(r, REGISTER_BITS) \o Bits(c, WORD_SIZE - OPCODE_BITS - REGISTER_BITS))
ARM(r, a) == Word(6, Bits(r, REGISTER_BITS)
                     \o Zeros(WORD_SIZE - OPCODE_BITS - REGISTER_BITS - MEM_ADDR_BITS)
                     \o Bits(a, MEM_ADDR_BITS))
AMR(a, r) == Word(7, Bits(a, MEM_ADDR_BITS)
                     \o Zeros(WORD_SIZE - OPCODE_BITS - REGISTER_BITS - MEM_ADDR_BITS)
                     \o Bits(r, REGISTER_BITS))

\* the first word of a multiline instruction: the reserved opcode 111111,
\* a register index and the high bits of the operand
Multi(r, c) == Word(63, Bits(r, REGISTER_BITS) \o Bits(c, WORD_SIZE - OPCODE_BITS - REGISTER_BITS))

\* moves of constants into each of the five registers, PC last
ProgMove == <<MRC(0, 42), MRC(1, 0), MRC(2, 8388607), MRC(4, 5), MRC(3, 7)>>

\* multiline instructions whose second word's operand bits start with zeros,
\* start with a one, are all zeros; and one whose second word is reserved too
ProgMulti ==
    <<Multi(0, 1), Word(0, Bits(5, WORD_SIZE - OPCODE_BITS)),
      Multi(1, 0), Word(0, Ones(WORD_SIZE - OPCODE_BITS)),
      Multi(2, 3), Word(0, Zeros(WORD_SIZE - OPCODE_BITS)),
      Multi(0, 1), Multi(0, 1)>>

\* every operation once, on registers AC and DR and cells 0 to 2
ProgMem ==
    <<MMC(0, 3), MRC(0, 5), ARM(0, 0), MMR(1, 0), MMM(2, 1), MRM(1, 2), ARC(1, 1), AMR(2, 1)>>

\* instructions that fail: register index 5, address 9, opcode 8, a short word,
\* a multiline instruction whose second word is short, address 1023 and index 7
ProgBad ==
    <<MRC(5, 1), MRM(0, 9), Word(8, Zeros(WORD_SIZE - OPCODE_BITS)), <<1, 0, 1>>,
      Multi(0, 1), <<1>>, AMR(1023, 7)>>

\* a program whose second line is longer than a word
ProgTooLong == <<MRC(0, 1), Ones(WORD_SIZE + 1), MRC(0, 2)>>

\* a program of one line more than the memory has cells
ProgNine == [i \in 1..(MEMORY_BLOCKS + 1) |-> MRC(0, i)]

\* a program that counts in AC and moves 0 into PC
ProgLoop == <<ARC(0, 1), MRC(3, 0)>>

\* AC = 2^32 - 1 by a multiline move, then sums that need 33 bits
ProgOverflow ==
    <<Multi(0, 8388607), Word(0, Ones(WORD_SIZE - OPCODE_BITS)),
      ARC(0, 1), MMR(0, 0), AMR(0, 0), ARM(0, 0)>>

\* adds whose destination or source register is PC or IR: PC += 1 (skipping
\* the second line), cell 6 += PC, IR += cell 6, cell 6 += IR, IR += 2
ProgAdd == <<ARC(3, 1), MRC(0, 9), AMR(6, 3), ARM(4, 6), AMR(6, 4), ARC(4, 2)>>

\* a two-word move of the constant 5 into DR, register index 1, then two
\* words with the reserved opcode in a row before a word with opcode 0
ProgSplit ==
    <<Multi(1, 0), Word(0, Bits(5, 26)), Multi(0, 1), Multi(0, 2), Word(0, Bits(3, 26))>>

\* each of the six operations with a register sub-field, with an index at
\* which there is no register; the last two name a missing address as well
ProgBadReg ==
    <<MRC(5, 1), MRM(6, 1), MMR(1, 7), ARC(6, 1), ARM(7, 0), AMR(0, 5), MRM(5, 9),
      AMR(1023, 6)>>

\* a loop that changes nothing but PC and IR: AC = 1, then PC = 0
ProgSpin == <<MRC(0, 1), MRC(3, 0)>>

Programs ==
    <<ProgMove, ProgMulti, ProgMem, ProgBad, ProgTooLong, ProgNine, ProgLoop, ProgOverflow,
      ProgAdd, ProgSplit, ProgBadReg, ProgSpin>>

\* the programs loaded in runs that also make direct calls
CallPrograms ==
    {p \in 1..Len(Programs) : Programs[p] \in {ProgMem, ProgTooLong, ProgNine, ProgOverflow}}

\* values handed to CPU.store and Memory.store: strings of 3, 32 and 33 bits,
\* the integers 0, 2^32 - 1 and 2^32
StoreValues ==
    {StrV(<<1, 0, 1>>), StrV(<<0, 1>>), StrV(Ones(WORD_SIZE)), StrV(Ones(WORD_SIZE + 1)),
     IntV(<< >>), IntV(Ones(WORD_SIZE)), IntV(<<1>> \o Zeros(WORD_SIZE))}

\* register names handed to CPU.load and CPU.store: "ZZ" is no register
CallNames == {"PC", "ZZ"}

\* addresses handed to Memory.load and Memory.store: the first cell, and two
\* addresses outside the memory
CallAddresses == {0, MEMORY_BLOCKS, -1}

\* ------------------------------------------------------------ actions
Init ==
    /\ registers = create_registers
    /\ memory = create_memory(MEMORY_BLOCKS)
    /\ op = NoOp
    /\ err = OK
    /\ ret = NoRet
    /\ fetched = << >>
    /\ disp = NoDispatch
    /\ steps = 0
    /\ loads = 0
    /\ calls = 0

\* the state a call leaves behind, whether it returned or raised
Leaves(s) ==
    /\ registers' = s.reg
    /\ memory' = s.mem
    /\ err' = s.err
    /\ fetched' = s.fetched
    /\ disp' = s.disp

\* main: the blank command, while fewer than n steps were taken
StepUpTo(n) ==
    /\ steps < n
    /\ Leaves(RunStep(Running(registers, memory)))
    /\ op' = [NoOp EXCEPT !.name = "step"]
    /\ ret' = NoRet
    /\ steps' = steps + 1
    /\ UNCHANGED <<loads, calls>>

\* main: the load command for program number p, while fewer than n programs
\* were loaded
LoadUpTo(p, n) ==
    /\ loads < n
    /\ Leaves(load_program(Running(registers, memory), Programs[p]))
    /\ op' = [NoOp EXCEPT !.name = "load_program", !.prog = p]
    /\ ret' = NoRet
    /\ loads' = loads + 1
    /\ UNCHANGED <<steps, calls>>

Step == StepUpTo(MaxSteps)

LoadProgram(p) == LoadUpTo(p, MaxLoads)

\* a call of CPU.store
RegStore(regid, value) ==
    /\ calls < MaxCalls
    /\ Leaves(CPUStore(Running(registers, memory), regid, value))
    /\ op' = [NoOp EXCEPT !.name = "cpu_store", !.reg = regid, !.val = value]
    /\ ret' = NoRet
    /\ calls' = calls + 1
    /\ UNCHANGED <<steps, loads>>

\* a call of Memory.store
MemStore(address, value) ==
    /\ calls < MaxCalls
    /\ Leaves(MemoryStore(Running(registers, memory), address, value))
    /\ op' = [NoOp EXCEPT !.name = "memory_store", !.addr = address, !.val = value]
    /\ ret' = NoRet
    /\ calls' = calls + 1
    /\ UNCHANGED <<steps, loads>>

\* a call of CPU.load (main: the reg command reads with return type "d");
\* it reads only, so it is not counted
RegLoad(regid, return_type) ==
    /\ LET r == CPULoad(registers, regid, return_type)
       IN  /\ err' = r.err
           /\ ret' = r.val
    /\ op' = [NoOp EXCEPT !.name = "cpu_load", !.reg = regid,
                          !.val = [kind |-> return_type, v |-> << >>]]
    /\ fetched' = << >>
    /\ disp' = NoDispatch
    /\ UNCHANGED <<registers, memory, steps, loads, calls>>

\* a call of Memory.load (main: the mem command reads with return type "d")
MemLoad(address, return_type) ==
    /\ LET r == MemoryLoad(memory, address, return_type)
       IN  /\ err' = r.err
           /\ ret' = r.val
    /\ op' = [NoOp EXCEPT !.name = "memory_load", !.addr = address,
                          !.val = [kind |-> return_type, v |-> << >>]]
    /\ fetched' = << >>
    /\ disp' = NoDispatch
    /\ UNCHANGED <<registers, memory, steps, loads, calls>>

\* the machine as main drives it: blank commands and load commands
Next ==
    \/ Step
    \/ \E p \in 1..Len(Programs) : LoadProgram(p)

Spec == Init /\ [][Next]_vars

\* the machine under every operation: steps, load_program, and direct calls
\* of CPU.store, Memory.store, CPU.load and Memory.load
NextCalls ==
    \/ StepUpTo(MaxCallSteps)
    \/ \E p \in CallPrograms : LoadUpTo(p, MaxCallLoads)
    \/ \E regid \in CallNames, value \in StoreValues : RegStore(regid, value)
    \/ \E address \in CallAddresses, value \in StoreValues : MemStore(address, value)
    \/ \E regid \in CallNames, return_type \in {"b", "d"} : RegLoad(regid, return_type)
    \/ \E address \in CallAddresses, return_type \in {"b", "d"} : MemLoad(address, return_type)

SpecCalls == Init /\ [][NextCalls]_vars

\* ------------------------------------------------- vocabulary of the claims
\* the five registers and the addresses of the memory, as the specification
\* names them
FiveRegisters == {"AC", "DR", "CR", "PC", "IR"}
Addresses == 0..(MEMORY_BLOCKS - 1)

\* the decimal value of PC as an address (2^30 for any value of 2^30 or more)
PCValue == AsIndex(Int2(registers["PC"]))

\* whether a register or cell value equals the small integer i in decimal
DecimalIs(bits, i) == Int2(bits) = FromInt(i)

\* the opcode field of a W-bit word as an integer, and its operand field
OpcodeField(w) == ToInt(Int2(SubSeq(w, 1, OPCODE_BITS)))
OperandField(w) == SubSeq(w, OPCODE_BITS + 1, Len(w))

IsWord(w) == Len(w) = WORD_SIZE
Reserved == 63
TableOpcodes == 0..7

\* a bit string without its whole leading run of zeros (empty when all zero)
RECURSIVE StripLeadingZeros(_)
StripLeadingZeros(s) ==
    IF s = << >> THEN << >>
    ELSE IF s[1] = 1 THEN s ELSE StripLeadingZeros(Tail(s))

\* the step about to be taken starts a multiline instruction at p whose
\* second word, at p + 1, is a word with an opcode of the dispatch table
ContinuationAt(p) ==
    /\ p + 1 < MEMORY_BLOCKS
    /\ IsWord(memory[p]) /\ OpcodeField(memory[p]) = Reserved
    /\ IsWord(memory[p + 1]) /\ OpcodeField(memory[p + 1]) \in TableOpcodes

\* ------------------------------------------------------------ C1
\* C1: a step from PC = p, where memory[p] is a word with the reserved opcode
\* 63 and memory[p+1] is a word with an opcode of the dispatch table, fetches
\* exactly twice (p, then p+1), has PC = p+2 and the second word in IR when it
\* dispatches, and dispatches the operation of the second word's opcode.
C1_ContinuationProtocol ==
    [][(op'.name = "step" /\ ContinuationAt(PCValue)) =>
          /\ fetched' = <<PCValue, PCValue + 1>>
          /\ DecimalIs(disp'.pc, PCValue + 2)
          /\ disp'.ir = memory[PCValue + 1]
          /\ disp'.func = OpcodeField(memory[PCValue + 1])
          /\ disp'.func # OpcodeField(memory[PCValue])
          /\ disp'.name # "none"]_vars

\* a step has run a two-word instruction: two fetches, the first of a word
\* with opcode 63, and the operation of the second word's opcode was called
C1_Witness ==
    /\ op.name = "step"
    /\ Len(fetched) = 2
    /\ fetched[2] = fetched[1] + 1
    /\ OpcodeField(memory[fetched[1]]) = Reserved
    /\ disp.name = "move_reg_const"
    /\ disp.func = OpcodeField(registers["IR"])
    /\ err = OK

\* ------------------------------------------------------------ C2
\* C2: under continuation, for every operand field of the second word, the
\* operand field handed to the operation is the first word's 26 operand bits
\* followed by the second word's operand bits without their whole leading run
\* of zeros.
C2_LeadingZerosStripped ==
    [][(op'.name = "step" /\ ContinuationAt(PCValue)) =>
          disp'.args = OperandField(memory[PCValue])
                       \o StripLeadingZeros(OperandField(memory[PCValue + 1]))]_vars

\* ------------------------------------------------------------ C3
\* whether the step about to be taken fetches a word with the reserved opcode
ContinuationTriggered ==
    /\ PCValue < MEMORY_BLOCKS
    /\ IsWord(memory[PCValue])
    /\ OpcodeField(memory[PCValue]) = Reserved

\* C3 as stated: across every step the decimal value of PC increases by
\* exactly 1, or by exactly 2 when continuation is triggered; no instruction
\* sets PC to any other value.
C3_NoControlTransfer ==
    [][op'.name = "step" =>
          \/ Int2(registers'["PC"]) = Add(Int2(registers["PC"]), FromInt(1))
          \/ /\ ContinuationTriggered
             /\ Int2(registers'["PC"]) = Add(Int2(registers["PC"]), FromInt(2))]_vars

\* the operations whose destination is the register named by the first three
\* operand bits
RegisterDestination == {"move_reg_const", "move_reg_mem", "add_reg_const", "add_reg_mem"}

\* C3 amended: across every step PC's decimal value grows by the number of
\* words the step fetched (0 when the fetch fails, 1, or 2 under
\* continuation), unless the step succeeds in executing an instruction with a
\* register destination whose register index is 3 (PC): that instruction sets
\* PC to the value it stores.
C3_PCChangesByFetchOrPCDestination ==
    [][op'.name = "step" =>
          \/ Int2(registers'["PC"]) = Add(Int2(registers["PC"]), FromInt(Len(fetched')))
          \/ /\ err' = OK
             /\ disp'.name \in RegisterDestination
             /\ ToInt(SubSeq(disp'.args, 1, REGISTER_BITS)) = 3]_vars

\* a step has executed a move of the constant 7 into register index 3: PC is
\* 7, not the address after the instruction
C3_Witness ==
    /\ op.name = "step"
    /\ err = OK
    /\ disp.name = "move_reg_const"
    /\ ToInt(SubSeq(disp.args, 1, REGISTER_BITS)) = 3
    /\ DecimalIs(disp.pc, 5)
    /\ DecimalIs(registers["PC"], 7)

\* ------------------------------------------------------------ C4
\* C4: in every state reached by load_program, steps and register and memory
\* stores, successful or failed, each of the five registers and every memory
\* cell holds a bit string of at most 32 bits.
C4_WordLength ==
    /\ \A r \in FiveRegisters : r \in DOMAIN registers /\ Len(registers[r]) <= WORD_SIZE
    /\ \A a \in Addresses : a \in DOMAIN memory /\ Len(memory[a]) <= WORD_SIZE

\* a store of a 33-bit value into an existing register was just refused,
\* after a program was loaded
C4_Witness ==
    /\ op.name = "cpu_store"
    /\ op.reg = "PC"
    /\ Len(AsStored(op.val)) = WORD_SIZE + 1
    /\ err = "ValueTooLong"
    /\ loads > 0

\* ------------------------------------------------------------ C5
\* the register or cell a store call names exists
TargetExists(o) ==
    \/ o.name = "cpu_store" /\ o.reg \in FiveRegisters
    \/ o.name = "memory_store" /\ o.addr \in Addresses

\* C5: a register store or memory store into an existing target whose value (a
\* bit string, or an integer after binary conversion) is longer than 32 bits
\* fails with ValueTooLong and leaves every register and memory cell as before.
C5_OverflowRejected ==
    [][(TargetExists(op') /\ Len(IF op'.val.kind = "int" THEN Bin(op'.val.v) ELSE op'.val.v) > WORD_SIZE) =>
          /\ err' = "ValueTooLong"
          /\ registers' = registers
          /\ memory' = memory]_vars

\* the integer 2^32 was just refused by a store into cell 0, which a loaded
\* program had written
C5_Witness ==
    /\ op.name = "memory_store"
    /\ op.addr = 0
    /\ op.val = IntV(<<1>> \o Zeros(WORD_SIZE))
    /\ err = "ValueTooLong"
    /\ IsWord(memory[0])

\* ------------------------------------------------------------ C6
\* C6: Memory.load and Memory.store with an address outside 0..7 fail with
\* AddressNotFound, CPU.load and CPU.store with a name outside the five
\* registers fail with RegisterNotFound; no register or cell changes and the
\* key sets stay the five registers and 0..7 after every operation.
C6_UnknownKeyRejected ==
    [][/\ DOMAIN registers' = FiveRegisters
       /\ DOMAIN memory' = Addresses
       /\ (op'.name \in {"cpu_load", "cpu_store"} /\ op'.reg \notin FiveRegisters) =>
             (err' = "RegisterNotFound" /\ registers' = registers /\ memory' = memory)
       /\ (op'.name \in {"memory_load", "memory_store"} /\ op'.addr \notin Addresses) =>
             (err' = "AddressNotFound" /\ registers' = registers /\ memory' = memory)]_vars

\* a store of a 3-bit string under the name ZZ was just refused
C6_Witness ==
    /\ op.name = "cpu_store"
    /\ op.reg = "ZZ"
    /\ op.val = StrV(<<1, 0, 1>>)
    /\ err = "RegisterNotFound"

\* ------------------------------------------------------------ C7
\* C7: a step that starts with PC >= 8 fails with AddressNotFound, reads no
\* memory cell (not the one at PC mod 8 either) and leaves PC, IR, every
\* other register and all memory unchanged, so the next step starts from the
\* same registers and fails the same way.
C7_NoWraparound ==
    [][(op'.name = "step" /\ PCValue >= MEMORY_BLOCKS) =>
          /\ err' = "AddressNotFound"
          /\ fetched' = << >>
          /\ disp' = NoDispatch
          /\ registers' = registers
          /\ memory' = memory]_vars

\* a step has just failed at PC = 8, the address after the last cell, which
\* PC reached by a step from each of the eight cells
C7_Witness ==
    /\ op.name = "step"
    /\ err = "AddressNotFound"
    /\ fetched = << >>
    /\ DecimalIs(registers["PC"], MEMORY_BLOCKS)
    /\ steps > MEMORY_BLOCKS

\* ------------------------------------------------------------ C8
\* C8: a step that fetches from p < 8 a word whose length is not 32 bits (as
\* its first word, or as the second word of a multiline instruction) fails
\* with MalformedInstruction; afterwards PC is p+1, IR holds the fetched
\* word, AC, DR, CR and all memory are unchanged, and nothing is fetched again.
C8_FailFastOnDecode ==
    [][op'.name = "step" =>
          /\ (PCValue < MEMORY_BLOCKS /\ ~IsWord(memory[PCValue])) =>
                /\ err' = "MalformedInstruction"
                /\ fetched' = <<PCValue>>
                /\ DecimalIs(registers'["PC"], PCValue + 1)
                /\ registers'["IR"] = memory[PCValue]
                /\ \A r \in {"AC", "DR", "CR"} : registers'[r] = registers[r]
                /\ memory' = memory
          /\ (ContinuationTriggered /\ PCValue + 1 < MEMORY_BLOCKS
                /\ ~IsWord(memory[PCValue + 1])) =>
                /\ err' = "MalformedInstruction"
                /\ fetched' = <<PCValue, PCValue + 1>>
                /\ DecimalIs(registers'["PC"], PCValue + 2)
                /\ registers'["IR"] = memory[PCValue + 1]
                /\ \A r \in {"AC", "DR", "CR"} : registers'[r] = registers[r]
                /\ memory' = memory]_vars

\* a step has just failed to decode the cell at 6, which no program wrote,
\* with AC already set by an earlier instruction
C8_Witness ==
    /\ op.name = "step"
    /\ err = "MalformedInstruction"
    /\ fetched = <<6>>
    /\ registers["IR"] = <<0>>
    /\ DecimalIs(registers["PC"], 7)
    /\ ~DecimalIs(registers["AC"], 0)

\* ------------------------------------------------------------ C9
\* C9: load_program with more than 8 lines (each of the first 8 no longer
\* than a word) fails with AddressNotFound at address 8; PC is 0, cells 0..7
\* hold lines 0..7 in order, and no later line was written to any cell.
C9_ProgramLoadBoundary ==
    [][(/\ op'.name = "load_program"
        /\ Len(Programs[op'.prog]) > MEMORY_BLOCKS
        /\ \A i \in 1..MEMORY_BLOCKS : Len(Programs[op'.prog][i]) <= WORD_SIZE) =>
          /\ err' = "AddressNotFound"
          /\ registers'["PC"] = <<0>>
          /\ DOMAIN memory' = Addresses
          /\ \A a \in Addresses : memory'[a] = Programs[op'.prog][a + 1]]_vars

\* the nine-line program was just loaded over the state an earlier program
\* and its steps had left, and the load failed
C9_Witness ==
    /\ op.name = "load_program"
    /\ Len(Programs[op.prog]) = MEMORY_BLOCKS + 1
    /\ err = "AddressNotFound"
    /\ loads = 2
    /\ steps > 0

\* ------------------------------------------------------------ C10
\* the register index field of a single-word instruction
RegisterField(w) == ToInt(Int2(SubSeq(w, OPCODE_BITS + 1, OPCODE_BITS + REGISTER_BITS)))

\* C10: a step that executes a single-word move-register-constant with
\* register index r in 0..4 and constant c leaves register r decimally equal
\* to c; memory and every other register keep their values, except for the
\* fetch's updates of PC (to p+1) and IR (to the word).
C10_MoveSemantics ==
    [][(/\ op'.name = "step"
        /\ PCValue < MEMORY_BLOCKS
        /\ IsWord(memory[PCValue])
        /\ OpcodeField(memory[PCValue]) = 0
        /\ RegisterField(memory[PCValue]) <= 4) =>
          LET w == memory[PCValue]
              target == RegOrder[RegisterField(w) + 1]
              c == SubSeq(w, OPCODE_BITS + REGISTER_BITS + 1, WORD_SIZE)
          IN  /\ err' = OK
              /\ Int2(registers'[target]) = Int2(c)
              /\ memory' = memory
              /\ \A r \in FiveRegisters \ {target, "PC", "IR"} : registers'[r] = registers[r]
              /\ target # "PC" => DecimalIs(registers'["PC"], PCValue + 1)
              /\ target # "IR" => registers'["IR"] = w]_vars

\* a step has just moved 42 into AC
C10_Witness ==
    /\ op.name = "step"
    /\ err = OK
    /\ disp.name = "move_reg_const"
    /\ Len(disp.args) = WORD_SIZE - OPCODE_BITS
    /\ ToInt(SubSeq(disp.args, 1, REGISTER_BITS)) = 0
    /\ DecimalIs(registers["AC"], 42)

\* ------------------------------------------------------------ C11
\* the value a register holds when the operation of the word w fetched from p
\* starts: the fetch has set IR to w and PC to p + 1
AtDispatch(r, p, w) ==
    IF r = "PC" THEN Bin(FromInt(p + 1)) ELSE IF r = "IR" THEN w ELSE registers[r]

\* the last k bits of a word, as a small integer
LastField(w, k) == ToInt(Int2(SubSeq(w, Len(w) - k + 1, Len(w))))

\* the first address field of a single-word instruction
AddressField(w) == ToInt(Int2(SubSeq(w, OPCODE_BITS + 1, OPCODE_BITS + MEM_ADDR_BITS)))

FitsWord(n) == Len(Bin(n)) <= WORD_SIZE

\* C11: a step that executes a single-word add-register-constant,
\* add-register-memory or add-memory-register with a valid register index and
\* a valid address, whose sum fits in 32 bits, leaves the destination (the
\* register, or the cell named by the first sub-field) decimally equal to the
\* sum of the value it held when the operation started and the other
\* operand's value, and leaves the source operand unchanged.
C11_AddSemantics ==
    [][(op'.name = "step" /\ PCValue < MEMORY_BLOCKS /\ IsWord(memory[PCValue])) =>
          LET p == PCValue
              w == memory[p]
          IN  /\ (OpcodeField(w) = 5 /\ RegisterField(w) <= 4) =>
                    LET r == RegOrder[RegisterField(w) + 1]
                        c == SubSeq(w, OPCODE_BITS + REGISTER_BITS + 1, WORD_SIZE)
                        sum == Add(Int2(AtDispatch(r, p, w)), Int2(c))
                    IN  FitsWord(sum) =>
                          /\ err' = OK
                          /\ Int2(registers'[r]) = sum
                          /\ memory' = memory
              /\ (OpcodeField(w) = 6 /\ RegisterField(w) <= 4
                    /\ LastField(w, MEM_ADDR_BITS) < MEMORY_BLOCKS) =>
                    LET r == RegOrder[RegisterField(w) + 1]
                        a == LastField(w, MEM_ADDR_BITS)
                        sum == Add(Int2(AtDispatch(r, p, w)), Int2(memory[a]))
                    IN  FitsWord(sum) =>
                          /\ err' = OK
                          /\ Int2(registers'[r]) = sum
                          /\ memory' = memory
              /\ (OpcodeField(w) = 7 /\ LastField(w, REGISTER_BITS) <= 4
                    /\ AddressField(w) < MEMORY_BLOCKS) =>
                    LET r == RegOrder[LastField(w, REGISTER_BITS) + 1]
                        a == AddressField(w)
                        sum == Add(Int2(memory[a]), Int2(AtDispatch(r, p, w)))
                    IN  FitsWord(sum) =>
                          /\ err' = OK
                          /\ Int2(memory'[a]) = sum
                          /\ \A b \in Addresses \ {a} : memory'[b] = memory[b]
                          /\ registers'[r] = AtDispatch(r, p, w)]_vars

\* the specification's example: with AC = 5 and 3 in cell 0, a step has just
\* executed add-register-memory on AC and cell 0, and AC is 8
C11_Witness ==
    /\ op.name = "step"
    /\ err = OK
    /\ disp.name = "add_reg_mem"
    /\ Len(disp.args) = WORD_SIZE - OPCODE_BITS
    /\ DecimalIs(memory[0], 3)
    /\ DecimalIs(registers["AC"], 8)

\* ------------------------------------------------------------ C12
\* a load call reads the register or cell that the call before it stored into
\* successfully
LoadAfterStore ==
    /\ err = OK
    /\ \/ op.name = "cpu_store" /\ op'.name = "cpu_load" /\ op'.reg = op.reg
       \/ op.name = "memory_store" /\ op'.name = "memory_load" /\ op'.addr = op.addr

\* C12: a load that immediately follows a successful store into the same
\* register or cell succeeds; when a bit string was stored, the load as a bit
\* string returns the identical string, and when an integer was stored, the
\* load as an integer returns that integer.
C12_StoreLoadRoundTrip ==
    [][LoadAfterStore =>
          /\ err' = OK
          /\ (op.val.kind = "str" /\ op'.val.kind = "b") => ret' = StrV(op.val.v)
          /\ (op.val.kind = "int" /\ op'.val.kind = "d") => ret' = IntV(op.val.v)]_vars

\* the partial-width string 01 was stored into cell 0 and the load that
\* followed returned 01, after a program had been loaded
C12_Witness ==
    /\ op.name = "memory_load"
    /\ op.addr = 0
    /\ op.val.kind = "b"
    /\ err = OK
    /\ calls > 0
    /\ loads > 0
    /\ memory[0] = <<0, 1>>
    /\ ret = StrV(<<0, 1>>)

\* ==================================================== the list-based variant
\* src/src/toymachine/machine.py keeps a word as a list of bits and converts
\* with bin2dec and dec2bin; its integers stay small enough here to be plain
\* integers.

\* SpecBitWord: the integers and the widths handed to dec2bin
MaxValue == 300
MaxWidth == 9

RECURSIVE Pow2(_)
Pow2(n) == IF n = 0 THEN 1 ELSE 2 * Pow2(n - 1)

\* reversed(value)
Reversed(value) == [i \in 1..Len(value) |-> value[Len(value) + 1 - i]]

\* the loop of bin2dec from position pos (counted from 0) of the reversed list
RECURSIVE bin2decFrom(_, _)
bin2decFrom(rev, pos) ==
    IF pos >= Len(rev) THEN 0
    ELSE rev[pos + 1] * Pow2(pos) + bin2decFrom(rev, pos + 1)

\* bin2dec
bin2dec(value) == bin2decFrom(Reversed(value), 0)

\* the while loop of dec2bin: floor(value / 2) is exact below 2^53
RECURSIVE dec2binLoop(_, _)
dec2binLoop(val, value) ==
    IF value > 0 THEN dec2binLoop(Append(val, value % 2), value \div 2) ELSE val

\* dec2bin as it would be without val.reverse()
dec2bin_NoReverse(value, bits) ==
    LET val == dec2binLoop(<< >>, value)
    IN  val \o Zeros(bits - Len(val))

\* dec2bin
dec2bin(value, bits) ==
    LET val == dec2binLoop(<< >>, value)
    IN  Reversed(val \o Zeros(bits - Len(val)))

\* an integer and a width are chosen
InitBitWord ==
    /\ \E value \in 0..MaxValue, bits \in 0..MaxWidth :
          op = [name |-> "input", value |-> value, bits |-> bits, list |-> << >>]
    /\ ret = NoRet
    /\ registers = create_registers
    /\ memory = create_memory(MEMORY_BLOCKS)
    /\ err = OK
    /\ fetched = << >>
    /\ disp = NoDispatch
    /\ steps = 0
    /\ loads = 0
    /\ calls = 0

\* dec2bin(value, bits) is called
Dec2Bin ==
    /\ op.name = "input"
    /\ op' = [op EXCEPT !.name = "dec2bin", !.list = dec2bin(op.value, op.bits)]
    /\ ret' = [kind |-> "list", v |-> dec2bin(op.value, op.bits)]
    /\ UNCHANGED <<registers, memory, err, fetched, disp, steps, loads, calls>>

\* bin2dec is called on the list dec2bin returned
Bin2Dec ==
    /\ op.name = "dec2bin"
    /\ op' = [op EXCEPT !.name = "bin2dec"]
    /\ ret' = [kind |-> "d", v |-> bin2dec(op.list)]
    /\ UNCHANGED <<registers, memory, err, fetched, disp, steps, loads, calls>>

NextBitWord == Dec2Bin \/ Bin2Dec

SpecBitWord == InitBitWord /\ [][NextBitWord]_vars

\* ------------------------------------------------------------ C13
\* the number of bits of v: 0 for 0
RECURSIVE BitLength(_)
BitLength(v) == IF v = 0 THEN 0 ELSE 1 + BitLength(v \div 2)

Larger(a, b) == IF a >= b THEN a ELSE b

\* C13: dec2bin(v, k) is a list of max(k, bit length of v) bits whose bit of
\* weight 2^i stands i places from the end (most significant first, zeros in
\* front), bin2dec of that list is v, and bin2dec of the empty list is 0.
C13_BitWordRoundTrip ==
    /\ op.name = "dec2bin" =>
          /\ Len(ret.v) = Larger(op.bits, BitLength(op.value))
          /\ \A i \in 0..(Len(ret.v) - 1) :
                ret.v[Len(ret.v) - i] = (op.value \div Pow2(i)) % 2
    /\ op.name = "bin2dec" =>
          /\ ret.v = op.value
          /\ op.list = << >> => ret.v = 0

\* bin2dec has returned 300 for the nine bits dec2bin(300, 4) returned: the
\* value is longer than the width asked for
C13_Witness ==
    /\ op.name = "bin2dec"
    /\ op.value = 300
    /\ op.bits = 4
    /\ op.list = <<1, 0, 0, 1, 0, 1, 1, 0, 0>>
    /\ ret.v = 300

\* ------------------------------------------------------------ C14
\* the position at which each operation splits its operand field
SplitPos(name) ==
    IF name \in {"move_reg_const", "move_reg_mem", "add_reg_const", "add_reg_mem"}
    THEN REGISTER_BITS
    ELSE MEM_ADDR_BITS

\* the number of last bits each operation asks for: -1 where it leaves the
\* number to _split_args
SplitSecondBits(name) ==
    IF name \in {"move_reg_const", "move_mem_const", "add_reg_const"} THEN -1
    ELSE IF name \in {"move_reg_mem", "move_mem_mem", "add_reg_mem"} THEN MEM_ADDR_BITS
    ELSE REGISTER_BITS

\* C14: whenever a step has handed an operand field, of one word or combined
\* from two, to an operation of the dispatch table, the operation's split
\* takes the first k bits and the last m bits with k + m the length of the
\* field: the sub-operands do not overlap and no operand bit is left out.
C14_OperandSplit ==
    disp.name # "none" =>
        LET nargs == split_args(disp.args, SplitPos(disp.name), SplitSecondBits(disp.name))
        IN  /\ Len(nargs[1]) = SplitPos(disp.name)
            /\ Len(nargs[1]) + Len(nargs[2]) = Len(disp.args)

\* ------------------------------------------------------------ C15
\* the words at p and p + 1 both carry the reserved opcode and a third word
\* follows them
DoubleContinuationAt(p) ==
    /\ p + 2 < MEMORY_BLOCKS
    /\ IsWord(memory[p]) /\ OpcodeField(memory[p]) = Reserved
    /\ IsWord(memory[p + 1]) /\ OpcodeField(memory[p + 1]) = Reserved
    /\ IsWord(memory[p + 2])

\* C15: the continuation word is decoded like the first word: when its opcode
\* is the reserved value 63 too, the step fetches a further word, and no step
\* looks the reserved value up in the dispatch table.
C15_RecursiveContinuation ==
    [][op'.name = "step" =>
          /\ disp'.func # Reserved
          /\ DoubleContinuationAt(PCValue) =>
                /\ Len(fetched') >= 3
                /\ fetched'[3] = PCValue + 2]_vars

\* ------------------------------------------------------------ C16
\* C16: a step that executes a single-word add-register-constant,
\* add-register-memory or add-memory-register with a valid register index and
\* a valid address, whose sum needs more than 32 bits, fails with
\* ValueTooLong and changes no memory cell and no register apart from the PC
\* and IR the fetch has set: the destination keeps its value.
C16_AddOverflow ==
    [][(op'.name = "step" /\ PCValue < MEMORY_BLOCKS /\ IsWord(memory[PCValue])) =>
          LET p == PCValue
              w == memory[p]
              Refused == /\ err' = "ValueTooLong"
                         /\ memory' = memory
                         /\ \A r \in FiveRegisters : registers'[r] = AtDispatch(r, p, w)
          IN  /\ (OpcodeField(w) = 5 /\ RegisterField(w) <= 4) =>
                    LET r == RegOrder[RegisterField(w) + 1]
                        c == SubSeq(w, OPCODE_BITS + REGISTER_BITS + 1, WORD_SIZE)
                    IN  ~FitsWord(Add(Int2(AtDispatch(r, p, w)), Int2(c))) => Refused
              /\ (OpcodeField(w) = 6 /\ RegisterField(w) <= 4
                    /\ LastField(w, MEM_ADDR_BITS) < MEMORY_BLOCKS) =>
                    LET r == RegOrder[RegisterField(w) + 1]
                        a == LastField(w, MEM_ADDR_BITS)
                    IN  ~FitsWord(Add(Int2(AtDispatch(r, p, w)), Int2(memory[a]))) => Refused
              /\ (OpcodeField(w) = 7 /\ LastField(w, REGISTER_BITS) <= 4
                    /\ AddressField(w) < MEMORY_BLOCKS) =>
                    LET r == RegOrder[LastField(w, REGISTER_BITS) + 1]
                        a == AddressField(w)
                    IN  ~FitsWord(Add(Int2(memory[a]), Int2(AtDispatch(r, p, w)))) => Refused]_vars

\* add-memory-register on cell 0 and AC, both 2^32 - 1, has just failed with
\* ValueTooLong and cell 0 still holds 32 ones
C16_Witness ==
    /\ op.name = "step"
    /\ disp.name = "add_mem_reg"
    /\ err = "ValueTooLong"
    /\ registers["AC"] = Ones(WORD_SIZE)
    /\ memory[0] = Ones(WORD_SIZE)

\* ------------------------------------------------------------ C17
\* the register sub-field of a single-word instruction: the first three
\* operand bits, or the last three for the operations from a register into
\* memory; -1 for an operation without a register sub-field
RegisterSubField(w) ==
    IF OpcodeField(w) \in {0, 1, 5, 6} THEN RegisterField(w)
    ELSE IF OpcodeField(w) \in {4, 7} THEN LastField(w, REGISTER_BITS)
    ELSE -1

\* C17: a step that executes a single-word instruction whose register
\* sub-field is 5, 6 or 7 fails with RegisterNotFound, and changes no memory
\* cell and no register apart from the PC and IR the fetch has set.
C17_RegisterIndexOutOfRange ==
    [][(op'.name = "step" /\ PCValue < MEMORY_BLOCKS /\ IsWord(memory[PCValue])
          /\ RegisterSubField(memory[PCValue]) >= Len(RegOrder)) =>
          /\ err' = "RegisterNotFound"
          /\ fetched' = <<PCValue>>
          /\ memory' = memory
          /\ \A r \in FiveRegisters :
                registers'[r] = AtDispatch(r, PCValue, memory[PCValue])]_vars

\* add-register-memory with register index 7 has just failed with
\* RegisterNotFound, while AC holds the 42 an earlier program moved into it
C17_Witness ==
    /\ op.name = "step"
    /\ disp.name = "add_reg_mem"
    /\ ToInt(SubSeq(disp.args, 1, REGISTER_BITS)) = 7
    /\ err = "RegisterNotFound"
    /\ DecimalIs(registers["AC"], 42)

\* ------------------------------------------ the list-based variant's machine
\* Machine.__init__: Memory(16, 2) and CPU(memory) with bits = 8
LIST_BLOCKS == 16
LIST_BYTES == 2
LIST_BITS == 8
\* the default length of Memory.load and Memory.store
LIST_LENGTH == 8

\* SpecList: the store calls and the load_next_instruction calls of one run
MaxListCalls == 2
MaxListSteps == 2

ListV(bits) == [kind |-> "list", v |-> bits]

\* isinstance(value, int): value = dec2bin(value, bits)
ListAsStored(value, bits) == IF value.kind = "int" THEN dec2bin(value.v, bits) ELSE value.v

ListRegNames == {"AX", "CX", "IX", "DX", "PC"}

\* CPU.create_registers
list_create_registers == [r \in ListRegNames |-> Zeros(LIST_BITS)]

\* Memory.create_memory
list_create_memory(num, bytes) == [a \in 0..(num - 1) |-> Zeros(8 * bytes)]

\* Memory.load: [err, val]
ListMemoryLoad(mem, address, length, pos, return_type) ==
    IF address \notin DOMAIN mem
    THEN [err |-> "AddressNotFound", val |-> NoRet]
    ELSE IF length + pos > Len(mem[address])
    THEN [err |-> "ValueTooLong", val |-> NoRet]
    ELSE LET value == SubSeq(mem[address], pos + 1, pos + length)
         IN  [err |-> OK,
              val |-> IF return_type = "d" THEN IntV(bin2dec(value)) ELSE ListV(value)]

\* Memory.store: the loop writes value[i] at i + pos for i below length, and
\* value[i] raises an IndexError, after the bits before it were written, when
\* the list is shorter than length
ListMemoryStore(s, address, value, length, pos) ==
    IF address \notin DOMAIN s.mem
    THEN Raise(s, "AddressNotFound")
    ELSE
    LET cell == s.mem[address]
        mem_length == Len(cell) - pos
        bits == ListAsStored(value, length)
        n == IF Len(bits) < length THEN Len(bits) ELSE length
        written == [i \in 1..Len(cell) |->
                       IF i > pos /\ i <= pos + n THEN bits[i - pos] ELSE cell[i]]
    IN  IF length < Len(bits) THEN Raise(s, "ValueTooLong")
        ELSE IF mem_length < length THEN Raise(s, "ValueTooLong")
        ELSE IF Len(bits) < length
        THEN Raise([s EXCEPT !.mem = DictSet(s.mem, address, written)], "IndexError")
        ELSE [s EXCEPT !.mem = DictSet(s.mem, address, written)]

\* CPU.load: [err, val]
ListCPULoad(reg, regid, return_type) ==
    IF regid \notin DOMAIN reg
    THEN [err |-> "RegisterNotFound", val |-> NoRet]
    ELSE [err |-> OK,
          val |-> IF return_type = "d" THEN IntV(bin2dec(reg[regid])) ELSE ListV(reg[regid])]

\* CPU.store: the length is compared with the length of the list the register
\* holds now
ListCPUStore(s, regid, value) ==
    IF regid \notin DOMAIN s.reg
    THEN Raise(s, "RegisterNotFound")
    ELSE IF Len(ListAsStored(value, LIST_BITS)) > Len(s.reg[regid])
         THEN Raise(s, "ValueTooLong")
         ELSE [s EXCEPT !.reg = DictSet(s.reg, regid, ListAsStored(value, LIST_BITS))]

\* CPU.load_next_instruction
list_load_next_instruction(s) ==
    LET loc == ListCPULoad(s.reg, "PC", "d")
    IN  IF loc.err # OK THEN Raise(s, loc.err)
        ELSE
        LET next == ListMemoryLoad(s.mem, loc.val.v, LIST_LENGTH, 0, "b")
        IN  IF next.err # OK THEN Raise(s, next.err)
            ELSE
            LET s1 == ListCPUStore(s, "IX", next.val)
            IN  IF s1.err # OK THEN s1
                ELSE ListCPUStore(s1, "PC", IntV(loc.val.v + 1))

\* the values, register names, addresses and positions of the calls
ListStoreValues ==
    {ListV(<<1, 0, 1>>), ListV(<< >>), ListV(Ones(LIST_BITS)), ListV(Ones(LIST_BITS + 1)),
     IntV(0), IntV(5), IntV(255), IntV(256)}

ListCallNames == {"AX", "PC", "ZZ"}
ListCallAddresses == {0, 1, LIST_BLOCKS}
ListCallPositions == {0, 8, 9}

\* the machine after Machine()
InitList ==
    /\ registers = list_create_registers
    /\ memory = list_create_memory(LIST_BLOCKS, LIST_BYTES)
    /\ op = NoOp
    /\ err = OK
    /\ ret = NoRet
    /\ fetched = << >>
    /\ disp = NoDispatch
    /\ steps = 0
    /\ loads = 0
    /\ calls = 0

\* a call of CPU.store
ListRegStore(regid, value) ==
    /\ calls < MaxListCalls
    /\ Leaves(ListCPUStore(Running(registers, memory), regid, value))
    /\ op' = [NoOp EXCEPT !.name = "cpu_store", !.reg = regid, !.val = value]
    /\ ret' = NoRet
    /\ calls' = calls + 1
    /\ UNCHANGED <<steps, loads>>

\* a call of Memory.store with the default length
ListMemStore(address, value, pos) ==
    /\ calls < MaxListCalls
    /\ Leaves(ListMemoryStore(Running(registers, memory), address, value, LIST_LENGTH, pos))
    /\ op' = [NoOp EXCEPT !.name = "memory_store", !.addr = address, !.val = value]
    /\ ret' = NoRet
    /\ calls' = calls + 1
    /\ UNCHANGED <<steps, loads>>

\* a call of CPU.load_next_instruction
ListStep ==
    /\ steps < MaxListSteps
    /\ Leaves(list_load_next_instruction(Running(registers, memory)))
    /\ op' = [NoOp EXCEPT !.name = "load_next_instruction"]
    /\ ret' = NoRet
    /\ steps' = steps + 1
    /\ UNCHANGED <<loads, calls>>

NextList ==
    \/ ListStep
    \/ \E regid \in ListCallNames, value \in ListStoreValues : ListRegStore(regid, value)
    \/ \E address \in ListCallAddresses, value \in ListStoreValues, pos \in ListCallPositions :
          ListMemStore(address, value, pos)

SpecList == InitList /\ [][NextList]_vars

\* ------------------------------------------------------------ C18
\* C18: a CPU.store into an existing register of a bit list of at most 8
\* bits, or of an integer whose 8-bit conversion has 8 bits, succeeds in
\* every state the calls can reach, whatever was stored before.
C18_RegisterCapacityFixed ==
    [][(op'.name = "cpu_store" /\ op'.reg \in ListRegNames
          /\ Len(ListAsStored(op'.val, LIST_BITS)) <= LIST_BITS) =>
          err' = OK]_vars

\* ------------------------------------------------- SpecRun: stepping forever
\* the load commands of one run
MaxRunLoads == 2

\* programs of at most 8 lines, each a 32-bit word, whose runs visit finitely
\* many states
RunPrograms ==
    {p \in 1..Len(Programs) : Programs[p] \in {ProgMove, ProgMulti, ProgMem, ProgAdd, ProgSpin}}

\* main: the blank command, any number of times; steps keeps the parity of
\* their number
StepOn ==
    /\ Leaves(RunStep(Running(registers, memory)))
    /\ op' = [NoOp EXCEPT !.name = "step"]
    /\ ret' = NoRet
    /\ steps' = 1 - steps
    /\ UNCHANGED <<loads, calls>>

NextRun ==
    \/ StepOn
    \/ \E p \in RunPrograms : LoadUpTo(p, MaxRunLoads)

\* one more blank command was entered: of the actions of NextRun only StepOn
\* changes steps
BlankCommand == steps' = 1 - steps

\* the user goes on entering blank commands
SpecRun == Init /\ [][NextRun]_vars /\ WF_steps(BlankCommand)

\* ------------------------------------------------------------ C19
\* a step has just failed with AddressNotFound at a PC past the last cell
RanOffTheEnd ==
    /\ op.name = "step"
    /\ err = "AddressNotFound"
    /\ PCValue >= MEMORY_BLOCKS

\* a step has just executed an instruction that stores into PC
WrotePC ==
    /\ op.name = "step"
    /\ err = OK
    /\ disp.name \in RegisterDestination
    /\ ToInt(SubSeq(disp.args, 1, REGISTER_BITS)) = 3

\* C19 as stated: after every successful load_program of a program of 32-bit
\* words, stepping on leads to a step that fails with AddressNotFound at a
\* PC >= 8.
C19_RunsOffTheEnd ==
    (op.name = "load_program" /\ err = OK) ~> RanOffTheEnd

\* C19, amended: after every successful load_program of a program of 32-bit
\* words, stepping on leads to a step that fails with AddressNotFound at a
\* PC >= 8, or to a step that executes an instruction whose destination is PC.
C19_RunsOffTheEndOrWritesPC ==
    (op.name = "load_program" /\ err = OK) ~> (RanOffTheEnd \/ WrotePC)

\* after a load and without any store into PC the run has left the memory:
\* PC is 8 and the last step failed with AddressNotFound
C19_Witness ==
    /\ RanOffTheEnd
    /\ loads > 0
    /\ PCValue = MEMORY_BLOCKS
    /\ DecimalIs(registers["AC"], 13)

\* ------------------------------------------------------------ C20
\* C20: a successful load_program of k <= 8 lines leaves PC decimally 0 and
\* cells 0..k-1 holding the k lines in order; AC, DR, CR and IR and the cells
\* k..7 keep the values they had.
C20_LoadProgramFrame ==
    [][(op'.name = "load_program" /\ err' = OK) =>
          LET program == Programs[op'.prog]
              k == Len(program)
          IN  /\ k <= MEMORY_BLOCKS
              /\ DecimalIs(registers'["PC"], 0)
              /\ \A r \in FiveRegisters \ {"PC"} : registers'[r] = registers[r]
              /\ DOMAIN memory' = Addresses
              /\ \A a \in Addresses :
                    memory'[a] = IF a < k THEN program[a + 1] ELSE memory[a]]_vars

\* the two-line loop was just loaded over the five-line program of moves
\* after that one had run: AC is still 42, IR still holds its last word, and
\* cell 4 still holds its last line
C20_Witness ==
    /\ op.name = "load_program"
    /\ err = OK
    /\ Programs[op.prog] = ProgSpin
    /\ memory[1] = ProgSpin[2]
    /\ memory[4] = ProgMove[5]
    /\ registers["IR"] = ProgMove[5]
    /\ DecimalIs(registers["AC"], 42)
    /\ DecimalIs(registers["PC"], 0)

=============================================================================
